---------------------------- MODULE Spec2Model ----------------------------
(***************************************************************************)
(* WinXinCrawler: the crawl coordinator (src/app.py, CrawlerManager), the  *)
(* spider callbacks (src/wechat_spider/spiders/wechat.py) and the item     *)
(* pipelines (src/wechat_spider/pipelines.py) as one state machine.        *)
(*                                                                         *)
(* Threads of control:                                                     *)
(*   - HTTP handlers of POST /api/start_crawl, each running                *)
(*     CrawlerManager.start_crawling; the method takes no lock, so its     *)
(*     test of is_running (line 39) and its assignments (lines 42-50) are  *)
(*     two steps of the handler;                                           *)
(*   - one crawl thread per successful start, running _crawl_articles;     *)
(*     inside it the Scrapy engine calls the spider callbacks and, for     *)
(*     every item a callback yields, the classes of ITEM_PIPELINES in      *)
(*     priority order.  A callback together with the pipeline pass of the  *)
(*     item it yields is one step (the engine is single threaded).         *)
(* The remote site, the document store's and the search index's            *)
(* availability are inputs chosen at each step.                            *)
(***************************************************************************)
EXTENDS Integers, Sequences, FiniteSets, Bags, TLC

\* ---------------------------------------------------------------- bounds
MaxRequests == 2
    \* start requests issued to /api/start_crawl
MaxTotal == 2
    \* largest total_page_cnt a listing response reports
MaxPageLen == 2
    \* most entries in one listing response
MaxSourceTotal == 11
    \* largest total a listing source of the paging runs reports
count == 5
    \* 'count': 5 of the listing request (create_article_request)

\* ------------------------------------------------------------ value sets
Accounts == {"acct"}
ArticleIds == {"a1", "a2"}
None == "None"
    \* Python's None / a key that is absent from the item
ValidUrl == "https://mp.weixin.qq.com/s/x"
Text == "text"
    \* the cleaned text of a detail page that has a content element

\* A JSON value of a count field (read_num, like_num, comment_cnt): a number,
\* a string, or nothing.
IntValue(n) == [type |-> "int", num |-> n, text |-> ""]
StrValue(t) == [type |-> "str", num |-> 0, text |-> t]
NoValue == [type |-> "none", num |-> 0, text |-> ""]

\* A listing entry (one element of app_msg_list): the fields the claims
\* depend on.  link = "" is an entry without a link; wellformed = FALSE is an
\* entry on which parse_article_data raises (for instance "title": null) and
\* returns None.  read_num stands for the three count fields, which the code
\* treats alike.
Entry(id, title, link, wellformed, read_num) ==
    [itemid |-> id, title |-> title, link |-> link, wellformed |-> wellformed,
     read_num |-> read_num]

\* The entries the site serves: a titled article whose count is a numeric
\* string, an untitled one whose count is negative and an entry without a
\* link whose count is not a number.
Entries ==
    {Entry("a1", "T", ValidUrl, TRUE, StrValue("12")),
     Entry("a2", "", ValidUrl, TRUE, IntValue(-3)),
     Entry("a1", "T", "", TRUE, StrValue("abc"))}

RECURSIVE SeqsUpTo(_, _)
SeqsUpTo(S, n) ==
    IF n = 0 THEN {<< >>}
    ELSE LET shorter == SeqsUpTo(S, n - 1)
         IN  shorter \cup {Append(s, e) : s \in {t \in shorter : Len(t) = n - 1}, e \in S}

\* The entry lists of a listing page: no entry is listed twice on one page.
Pages ==
    {s \in SeqsUpTo(Entries, MaxPageLen) :
        \A i, j \in 1..Len(s) : i # j => s[i] # s[j]}

\* What the site can answer to a listing request.
ListingResponses ==
    [kind : {"ok"}, entries : Pages, total : 0..MaxTotal]
    \cup [kind : {"failure", "badjson"}, entries : {<< >>}, total : {0}]

\* What the site can answer to the account search.
SearchResponses == {"found", "notfound", "failure", "badjson"}

\* How handling the detail page goes inside parse_article_content:
\*   "content"   a selector matches, content and media are extracted;
\*   "nocontent" no selector matches, the item keeps no content;
\*   "raises"    an exception inside the try block before content is set.
ContentOutcomes == {"content", "nocontent", "raises"}

\* Where the document store fails during MongoPipeline.process_item.
MongoFaults == {"none", "find_one", "insert_one"}

VARIABLES
    is_running, current_task, progress, total_articles, crawled_articles,
    reqs, runs, events, articles, es_index, last_pass, pager, call

manager == <<is_running, current_task, progress, total_articles, crawled_articles>>
stores == <<articles, es_index>>
vars == <<is_running, current_task, progress, total_articles, crawled_articles,
          reqs, runs, events, articles, es_index, last_pass, pager, call>>

\* The item that is no item: what parse_article_data returns when it fails,
\* and the filler of requests that carry none.
NoItem ==
    [article_id |-> None, title |-> None, url |-> None, content |-> None,
     read_count |-> NoValue]

\* last_pass is what the step that led to the current state sent through the
\* item pipeline: the item, the stored record find_one returned for it
\* (NoItem when there was none), the outcome and the log lines written.
NoPass ==
    [kind |-> "nopass", run |-> 0, item |-> NoItem, existing |-> NoItem,
     result |-> None, reason |-> << >>, log |-> << >>]

\* A request in the scheduler of one crawl.  begin is used by listing
\* requests, item (response.meta['item']) by content requests.
SearchRequest == [kind |-> "search", begin |-> 0, item |-> NoItem]

\* --------------------------------------------------------------- spider
ContentRequest(item) ==
    [kind |-> "content", begin |-> 0, item |-> item]

create_article_request(begin) ==
    [kind |-> "list", begin |-> begin, item |-> NoItem]

\* parse_article_data: the partial record built from one listing entry, or
\* NoItem (Python's None) when building it raises.  content is not set here.
parse_article_data(entry) ==
    IF ~entry.wellformed THEN NoItem
    ELSE [article_id |-> entry.itemid, title |-> entry.title,
          url |-> entry.link, content |-> None, read_count |-> entry.read_num]

\* scrapy.Request(url=...) raises ValueError for a url without a scheme.
RequestRaises(url) == url = ""

\* Index of the first entry whose Request constructor raises inside the
\* generator parse_article_list (0 when none does).  The except clause of the
\* callback catches json.JSONDecodeError only, so the generator ends there.
FirstRaise(entries) ==
    LET bad == {k \in 1..Len(entries) :
                  /\ parse_article_data(entries[k]) # NoItem
                  /\ RequestRaises(entries[k].link)}
    IN  IF bad = {} THEN 0 ELSE CHOOSE k \in bad : \A j \in bad : k <= j

\* Faulty variant: the cursor advances by the page size asked for instead of
\* the number of entries returned.
parse_article_list_FixedStep(resp, begin) ==
    IF resp.kind # "ok" \/ resp.entries = << >> THEN {}
    ELSE IF begin + count < resp.total
         THEN {create_article_request(begin + count)}
         ELSE {}

\* Faulty variant: one more page is requested when the cursor has reached the
\* total exactly.
parse_article_list_OffByOne(resp, begin) ==
    IF resp.kind # "ok" \/ resp.entries = << >> THEN {}
    ELSE IF begin + Len(resp.entries) <= resp.total
         THEN {create_article_request(begin + Len(resp.entries))}
         ELSE {}

\* Faulty variant: a page that failed or came back empty is asked for again.
parse_article_list_RetriesBadPage(resp, begin) ==
    IF resp.kind # "ok" \/ resp.entries = << >> THEN {create_article_request(begin)}
    ELSE LET articles_ == resp.entries
             stop == FirstRaise(articles_)
             upto == IF stop = 0 THEN Len(articles_) ELSE stop - 1
             contentReqs ==
                 {ContentRequest(parse_article_data(articles_[k])) :
                     k \in {j \in 1..upto : parse_article_data(articles_[j]) # NoItem}}
             current_count == begin + Len(articles_)
         IN  IF stop # 0 THEN contentReqs
             ELSE IF current_count < resp.total
                  THEN contentReqs \cup {create_article_request(current_count)}
                  ELSE contentReqs

\* Faulty variant: the callback asks for the next two pages at once.
parse_article_list_Prefetch(resp, begin) ==
    IF resp.kind # "ok" \/ resp.entries = << >> THEN {}
    ELSE LET articles_ == resp.entries
             stop == FirstRaise(articles_)
             upto == IF stop = 0 THEN Len(articles_) ELSE stop - 1
             contentReqs ==
                 {ContentRequest(parse_article_data(articles_[k])) :
                     k \in {j \in 1..upto : parse_article_data(articles_[j]) # NoItem}}
             current_count == begin + Len(articles_)
         IN  IF stop # 0 THEN contentReqs
             ELSE IF current_count < resp.total
                  THEN contentReqs \cup {create_article_request(current_count),
                                         create_article_request(current_count + count)}
                  ELSE contentReqs

\* parse_article_list: the requests the callback yields for one listing
\* response to the request with offset begin.
parse_article_list(resp, begin) ==
    IF resp.kind # "ok" \/ resp.entries = << >> THEN {}
    ELSE LET articles_ == resp.entries
             stop == FirstRaise(articles_)
             upto == IF stop = 0 THEN Len(articles_) ELSE stop - 1
             contentReqs ==
                 {ContentRequest(parse_article_data(articles_[k])) :
                     k \in {j \in 1..upto : parse_article_data(articles_[j]) # NoItem}}
             total_count == resp.total
             current_count == begin + Len(articles_)
         IN  IF stop # 0 THEN contentReqs
             ELSE IF current_count < total_count
                  THEN contentReqs \cup {create_article_request(current_count)}
                  ELSE contentReqs

\* parse_account_search: the requests yielded for one search response.
parse_account_search(resp) ==
    IF resp = "found" THEN {create_article_request(0)} ELSE {}

\* parse_article_content: the item the callback yields.  It yields the item
\* on both paths (line 208 and line 213); content is set only when a content
\* element is found.
parse_article_content(item, outcome) ==
    IF outcome = "content" THEN [item EXCEPT !.content = Text] ELSE item

\* ------------------------------------------------------------ pipelines
\* Python truthiness of item.get(field): None and "" are falsy.
Falsy(v) == v = None \/ v = ""

LogLine(level, msg) == [level |-> level, msg |-> msg]

\* The state a pipeline pass threads through its stages.
PassState(run, item) ==
    [run |-> run, item |-> item, result |-> "item", reason |-> << >>, log |-> << >>,
     articles |-> articles, es_index |-> es_index,
     crawled_articles |-> crawled_articles, progress |-> progress, emitted |-> << >>]

\* db.articles is a bag of documents: insert_one adds one, whatever is there.
\* find_one({'article_id': id}): the stored documents with that id.
Existing(store, id) == {d \in BagToSet(store) : d.article_id = id}

\* except Exception (lines 58-60): log an error and raise DropItem anew.
MongoExcept(ps, cause) ==
    [ps EXCEPT !.result = "drop",
               !.reason = <<"Error saving item to MongoDB">> \o cause,
               !.log = Append(@, LogLine("ERROR", "Error saving to MongoDB"))]

\* Faulty variant: a failed lookup or insert is logged and the item returned
\* to the next stage.
MongoPipeline_SwallowsFailure(ps, fault) ==
    IF fault # "none"
    THEN [ps EXCEPT !.log = Append(@, LogLine("ERROR", "Error saving to MongoDB"))]
    ELSE IF Existing(ps.articles, ps.item.article_id) # {}
    THEN MongoExcept(
             [ps EXCEPT !.log = Append(@, LogLine("DEBUG", "Article already exists"))],
             <<"Duplicate item found">>)
    ELSE [ps EXCEPT !.articles = @ (+) SetToBag({ps.item}),
                    !.log = Append(@, LogLine("INFO", "Article saved to MongoDB"))]

\* Faulty variant: a duplicate is not inserted again but is returned to the
\* next stage.
MongoPipeline_PassesDuplicate(ps, fault) ==
    IF fault = "find_one" THEN MongoExcept(ps, <<"store failure">>)
    ELSE IF Existing(ps.articles, ps.item.article_id) # {}
    THEN [ps EXCEPT !.log = Append(@, LogLine("DEBUG", "Article already exists"))]
    ELSE IF fault = "insert_one" THEN MongoExcept(ps, <<"store failure">>)
    ELSE [ps EXCEPT !.articles = @ (+) SetToBag({ps.item}),
                    !.log = Append(@, LogLine("INFO", "Article saved to MongoDB"))]

\* Faulty variant: process_item without the find_one lookup (always insert).
MongoPipeline_NoLookup(ps, fault) ==
    IF fault # "none" THEN MongoExcept(ps, <<"store failure">>)
    ELSE [ps EXCEPT !.articles = @ (+) SetToBag({ps.item}),
                    !.log = Append(@, LogLine("INFO", "Article saved to MongoDB"))]

\* Faulty variant: process_item that replaces the stored document of a known
\* article_id (update instead of drop) and passes the item on.
MongoPipeline_Upsert(ps, fault) ==
    IF fault # "none" THEN MongoExcept(ps, <<"store failure">>)
    ELSE [ps EXCEPT !.articles =
                        [d \in {e \in DOMAIN @ : e.article_id # ps.item.article_id}
                            |-> @[d]] (+) SetToBag({ps.item}),
                    !.log = Append(@, LogLine("INFO", "Article saved to MongoDB"))]

\* MongoPipeline.process_item.  DropItem raised at line 45 is an Exception
\* and is therefore caught by the handler at line 58.
MongoPipeline_process_item(ps, fault) ==
    IF fault = "find_one" THEN MongoExcept(ps, <<"store failure">>)
    ELSE IF Existing(ps.articles, ps.item.article_id) # {}
    THEN MongoExcept(
             [ps EXCEPT !.log = Append(@, LogLine("DEBUG", "Article already exists"))],
             <<"Duplicate item found">>)
    ELSE IF fault = "insert_one" THEN MongoExcept(ps, <<"store failure">>)
    ELSE [ps EXCEPT !.articles = @ (+) SetToBag({ps.item}),
                    !.log = Append(@, LogLine("INFO", "Article saved to MongoDB"))]

\* Faulty variant: es.index without the document id (every write adds a
\* document).
ElasticsearchPipeline_Append(ps, es_ok) ==
    IF es_ok
    THEN [ps EXCEPT !.es_index = @ \cup {ps.item},
                    !.log = Append(@, LogLine("INFO", "Article indexed in Elasticsearch"))]
    ELSE [ps EXCEPT !.log = Append(@, LogLine("ERROR", "Error indexing in Elasticsearch"))]

\* ElasticsearchPipeline.process_item: es.index(id=article_id) replaces the
\* document with that id (an empty id is left out of the request by the
\* client, and the document is then added under a generated id); any
\* exception is logged and the item returned.
ElasticsearchPipeline_process_item(ps, es_ok) ==
    IF es_ok
    THEN [ps EXCEPT !.es_index =
                       {d \in @ : \/ Falsy(ps.item.article_id)
                                  \/ d.article_id # ps.item.article_id} \cup {ps.item},
                    !.log = Append(@, LogLine("INFO", "Article indexed in Elasticsearch"))]
    ELSE [ps EXCEPT !.log = Append(@, LogLine("ERROR", "Error indexing in Elasticsearch"))]

\* ValidationPipeline.process_item.
ValidationPipeline_process_item(ps) ==
    IF Falsy(ps.item.title)
    THEN [ps EXCEPT !.result = "drop", !.reason = <<"Missing title in item">>]
    ELSE IF Falsy(ps.item.content)
    THEN [ps EXCEPT !.result = "drop", !.reason = <<"Missing content in item">>]
    ELSE IF Falsy(ps.item.url)
    THEN [ps EXCEPT !.result = "drop", !.reason = <<"Missing url in item">>]
    ELSE ps

\* Python's int(v) on a count value: the number itself, the number a numeric
\* string spells, or ValueError / TypeError (raises).
Numerals == [t \in {"12"} |-> 12]
int(v) ==
    IF v.type = "int" THEN [raises |-> FALSE, value |-> v]
    ELSE IF v.type = "str" /\ v.text \in DOMAIN Numerals
    THEN [raises |-> FALSE, value |-> IntValue(Numerals[v.text])]
    ELSE [raises |-> TRUE, value |-> NoValue]

\* Python truthiness of a count value: None, 0 and "" are falsy.
FalsyValue(v) ==
    \/ v.type = "none"
    \/ v.type = "int" /\ v.num = 0
    \/ v.type = "str" /\ v.text = ""

\* CleaningPipeline.process_item, lines 186-192: a truthy count becomes
\* int(value), or 0 when int raises.  (The strip and whitespace steps of
\* lines 172-184 leave the modelled titles and contents as they are.)
CleaningPipeline_process_item(ps) ==
    IF FalsyValue(ps.item.read_count) THEN ps
    ELSE LET c == int(ps.item.read_count)
         IN  [ps EXCEPT !.item.read_count =
                            IF c.raises THEN IntValue(0) ELSE c.value]

\* progress as the code computes it, kept in tenths of a percent.
Max(a, b) == IF a >= b THEN a ELSE b
Percent(crawled, total) == (crawled * 1000) \div Max(total, 1)

\* SocketIOWechatSpider.process_item (app.py 70-83): a method of the spider
\* class, not a class named in ITEM_PIPELINES.
SocketIOWechatSpider_process_item(ps) ==
    LET n == ps.crawled_articles + 1
        p == Percent(n, total_articles)
    IN  [ps EXCEPT !.crawled_articles = n,
                   !.progress = p,
                   !.emitted = Append(@, [run |-> ps.run, status |-> "crawling",
                                          progress |-> p, crawled |-> n,
                                          total |-> total_articles])]

\* Faulty variant: the priorities of the two stages exchanged.
ITEM_PIPELINES_IndexFirst == <<"ElasticsearchPipeline", "MongoPipeline">>

\* settings.set('ITEM_PIPELINES', {...}) in _crawl_articles (app.py 57-60):
\* the stages the engine runs for every item, in priority order 300, 400.
ITEM_PIPELINES == <<"MongoPipeline", "ElasticsearchPipeline">>

Stage(name, ps, fault, es_ok) ==
    CASE name = "MongoPipeline" -> MongoPipeline_process_item(ps, fault)
      [] name = "ElasticsearchPipeline" -> ElasticsearchPipeline_process_item(ps, es_ok)
      [] name = "ValidationPipeline" -> ValidationPipeline_process_item(ps)
      [] name = "CleaningPipeline" -> CleaningPipeline_process_item(ps)
      [] name = "SocketIOWechatSpider" -> SocketIOWechatSpider_process_item(ps)

\* The engine's item pipeline manager: each stage gets the item the previous
\* one returned; DropItem ends the pass.
RECURSIVE RunStages(_, _, _, _)
RunStages(stages, ps, fault, es_ok) ==
    IF stages = << >> \/ ps.result = "drop" THEN ps
    ELSE RunStages(Tail(stages), Stage(Head(stages), ps, fault, es_ok), fault, es_ok)

RunPipeline(run, item, fault, es_ok) ==
    RunStages(ITEM_PIPELINES, PassState(run, item), fault, es_ok)

\* ---------------------------------------------------------------- paging
\* pager: the listing requests of one crawl taken by themselves, against a
\* source that reports the same total for every page.  pending holds the
\* begin of the outstanding listing request, log the requests answered so
\* far with the number of entries each response returned.
NoPager == [total |-> 0, pending |-> {}, log |-> << >>, started |-> FALSE]

\* A listing response with n entries that reports total.
SourcePage(n, total) ==
    [kind |-> "ok", entries |-> [k \in 1..n |-> Entry("a1", "T", ValidUrl, TRUE, IntValue(0))],
     total |-> total]

\* ------------------------------------------------------------------ Init
\* CrawlerManager.__init__ (app.py 31-36); no request made, no crawl thread,
\* both stores empty.
ManagerInit ==
    /\ is_running = FALSE
    /\ current_task = None
    /\ progress = 0
    /\ total_articles = 0
    /\ crawled_articles = 0
    /\ reqs = [i \in 1..MaxRequests |-> [pc |-> "new", account |-> None, success |-> FALSE]]
    /\ runs = << >>
    /\ events = << >>
    /\ articles = EmptyBag
    /\ es_index = {}
    /\ last_pass = NoPass

\* call: one call of a helper of the spider taken by itself (its arguments
\* and, once it has run, what it returned).
NoCall == [fn |-> "none", args |-> << >>, result |-> << >>]

Init == ManagerInit /\ pager = NoPager /\ call = NoCall

\* --------------------------------------------------- CrawlerManager.start
\* start_crawling, line 39-40: the test of is_running.  A request that sees
\* the flag set returns (False, "Crawler is already running").
\* Faulty variant: start_crawling without the test of is_running.
StartCheck_NoGuard(i, account) ==
    /\ reqs[i].pc = "new"
    /\ \A j \in 1..(i - 1) : reqs[j].pc # "new"
    /\ reqs' = [reqs EXCEPT ![i] = [pc |-> "checked", account |-> account, success |-> FALSE]]
    /\ last_pass' = NoPass
    /\ UNCHANGED <<manager, runs, events, stores>>
    /\ UNCHANGED <<pager, call>>

\* Requests are numbered in the order in which their handlers start.
StartCheck(i, account) ==
    /\ reqs[i].pc = "new"
    /\ \A j \in 1..(i - 1) : reqs[j].pc # "new"
    /\ reqs' = [reqs EXCEPT ![i] =
                  IF is_running
                  THEN [pc |-> "returned", account |-> account, success |-> FALSE]
                  ELSE [pc |-> "checked", account |-> account, success |-> FALSE]]
    /\ last_pass' = NoPass
    /\ UNCHANGED <<manager, runs, events, stores>>
    /\ UNCHANGED <<pager, call>>

\* Faulty variant: start_crawling without the assignment of line 43.
StartLaunch_KeepsTask(i) ==
    /\ reqs[i].pc = "checked"
    /\ is_running' = TRUE
    /\ progress' = 0
    /\ crawled_articles' = 0
    /\ runs' = Append(runs, [pc |-> "launch", account |-> reqs[i].account, pending |-> {},
                             not_found |-> FALSE])
    /\ reqs' = [reqs EXCEPT ![i].pc = "returned", ![i].success = TRUE]
    /\ last_pass' = NoPass
    /\ UNCHANGED <<current_task, total_articles, events, stores>>
    /\ UNCHANGED <<pager, call>>

\* start_crawling, lines 42-52: set the flag, reset the counters, start the
\* crawl thread, return (True, "Crawling started").
StartLaunch(i) ==
    /\ reqs[i].pc = "checked"
    /\ is_running' = TRUE
    /\ current_task' = reqs[i].account
    /\ progress' = 0
    /\ crawled_articles' = 0
    /\ runs' = Append(runs, [pc |-> "launch", account |-> reqs[i].account, pending |-> {},
                             not_found |-> FALSE])
    /\ reqs' = [reqs EXCEPT ![i].pc = "returned", ![i].success = TRUE]
    /\ last_pass' = NoPass
    /\ UNCHANGED <<total_articles, events, stores>>
    /\ UNCHANGED <<pager, call>>

\* ------------------------------------------ CrawlerManager._crawl_articles
\* Lines 55-86 without an exception: the engine starts, opens the pipelines
\* and schedules the request of start_requests (wechat.py 29-47).
\* MongoPipeline.open_spider (pipelines.py 22-32) catches whatever the
\* connection attempt raises and only logs it, so the crawl starts in the
\* same way whether or not the document store can be reached.
CrawlStart(r) ==
    /\ runs[r].pc = "launch"
    /\ runs' = [runs EXCEPT ![r].pc = "crawling", ![r].pending = {SearchRequest}]
    /\ last_pass' = NoPass
    /\ UNCHANGED <<manager, reqs, events, stores>>
    /\ UNCHANGED <<pager, call>>

\* Faulty variant: an except clause that does not clear is_running.
CrawlRaises_KeepsFlag(r) ==
    /\ runs[r].pc = "launch"
    /\ runs' = [runs EXCEPT ![r].pc = "emit_error"]
    /\ last_pass' = NoPass
    /\ UNCHANGED <<manager, reqs, events, stores>>
    /\ UNCHANGED <<pager, call>>

\* Lines 55-86 raise (process.start() in a thread, a reactor that cannot be
\* restarted, ...): the handler at line 96 clears the flag (line 97).
CrawlRaises(r) ==
    /\ runs[r].pc = "launch"
    /\ is_running' = FALSE
    /\ runs' = [runs EXCEPT ![r].pc = "emit_error"]
    /\ last_pass' = NoPass
    /\ UNCHANGED <<current_task, progress, total_articles, crawled_articles,
                   reqs, events, stores>>
    /\ UNCHANGED <<pager, call>>

\* The thread function returns after its emit: the spider and the pipeline
\* objects of the crawl (and what the spider learnt from the account
\* search) are gone with it.
Finished(run) ==
    [run EXCEPT !.pc = "done", !.not_found = FALSE]

\* Lines 98-104: the error event.
EmitError(r) ==
    /\ runs[r].pc = "emit_error"
    /\ events' = Append(events, [run |-> r, status |-> "error", progress |-> progress,
                                 crawled |-> crawled_articles, total |-> total_articles])
    /\ runs' = [runs EXCEPT ![r] = Finished(@)]
    /\ last_pass' = NoPass
    /\ UNCHANGED <<manager, reqs, stores>>
    /\ UNCHANGED <<pager, call>>

\* Faulty variant: the flag is not cleared before the completed event.
ProcessReturns_KeepsFlag(r) ==
    /\ runs[r].pc = "crawling"
    /\ runs[r].pending = {}
    /\ runs' = [runs EXCEPT ![r].pc = "emit_completed"]
    /\ last_pass' = NoPass
    /\ UNCHANGED <<manager, reqs, events, stores>>
    /\ UNCHANGED <<pager, call>>

\* process.start() returns when the engine has nothing left to do; line 88
\* clears the flag.
ProcessReturns(r) ==
    /\ runs[r].pc = "crawling"
    /\ runs[r].pending = {}
    /\ is_running' = FALSE
    /\ runs' = [runs EXCEPT ![r].pc = "emit_completed"]
    /\ last_pass' = NoPass
    /\ UNCHANGED <<current_task, progress, total_articles, crawled_articles,
                   reqs, events, stores>>
    /\ UNCHANGED <<pager, call>>

\* Faulty variant: the completed event carries the progress reached so far.
EmitCompleted_KeepsProgress(r) ==
    /\ runs[r].pc = "emit_completed"
    /\ events' = Append(events, [run |-> r, status |-> "completed", progress |-> progress,
                                 crawled |-> crawled_articles, total |-> total_articles])
    /\ runs' = [runs EXCEPT ![r] = Finished(@)]
    /\ last_pass' = NoPass
    /\ UNCHANGED <<manager, reqs, stores>>
    /\ UNCHANGED <<pager, call>>

\* Lines 89-94: the completed event, progress 100.
EmitCompleted(r) ==
    /\ runs[r].pc = "emit_completed"
    /\ events' = Append(events, [run |-> r, status |-> "completed", progress |-> 1000,
                                 crawled |-> crawled_articles, total |-> total_articles])
    /\ runs' = [runs EXCEPT ![r] = Finished(@)]
    /\ last_pass' = NoPass
    /\ UNCHANGED <<manager, reqs, stores>>
    /\ UNCHANGED <<pager, call>>

\* GET /api/status: what a status query answers in the current state.
get_status ==
    [is_running |-> is_running, current_task |-> current_task, progress |-> progress,
     crawled_articles |-> crawled_articles, total_articles |-> total_articles]

\* ------------------------------------------------------ engine callbacks
\* The response to the search request arrives: parse_account_search.
ParseAccountSearch(r, resp) ==
    /\ runs[r].pc = "crawling"
    /\ SearchRequest \in runs[r].pending
    /\ runs' = [runs EXCEPT ![r].pending =
                   (@ \ {SearchRequest}) \cup parse_account_search(resp),
                            ![r].not_found = (resp = "notfound")]
    /\ last_pass' = NoPass
    /\ UNCHANGED <<manager, reqs, events, stores>>
    /\ UNCHANGED <<pager, call>>

\* The response to a listing request arrives: parse_article_list.
ParseArticleList(r, q, resp) ==
    /\ runs[r].pc = "crawling"
    /\ q \in runs[r].pending
    /\ q.kind = "list"
    /\ runs' = [runs EXCEPT ![r].pending =
                   (@ \ {q}) \cup parse_article_list(resp, q.begin)]
    /\ last_pass' = NoPass
    /\ UNCHANGED <<manager, reqs, events, stores>>
    /\ UNCHANGED <<pager, call>>

\* The detail page of a content request arrives: parse_article_content yields
\* the item and the engine sends it through ITEM_PIPELINES.  A DropItem is
\* logged by the engine; the other requests of the crawl stay scheduled.
ParseArticleContent(r, q, outcome, fault, es_ok) ==
    /\ runs[r].pc = "crawling"
    /\ q \in runs[r].pending
    /\ q.kind = "content"
    /\ LET item == parse_article_content(q.item, outcome)
           ps == RunPipeline(r, item, fault, es_ok)
           found == Existing(articles, item.article_id)
       IN  /\ articles' = ps.articles
           /\ es_index' = ps.es_index
           /\ crawled_articles' = ps.crawled_articles
           /\ progress' = ps.progress
           /\ events' = events \o ps.emitted
           /\ last_pass' = [kind |-> "pass", run |-> r, item |-> item,
                            existing |-> IF found = {} THEN NoItem
                                         ELSE CHOOSE d \in found : TRUE,
                            result |-> ps.result, reason |-> ps.reason, log |-> ps.log]
    /\ runs' = [runs EXCEPT ![r].pending = @ \ {q}]
    /\ UNCHANGED <<is_running, current_task, total_articles, reqs>>
    /\ UNCHANGED <<pager, call>>

\* A request fails in the downloader (connection error, timeout, HTTP error
\* status).  No Request is built with an errback (wechat.py 41-47, 87-93,
\* 110-116), so no callback of the spider runs for it.
DownloadFails(r, q) ==
    /\ runs[r].pc = "crawling"
    /\ q \in runs[r].pending
    /\ runs' = [runs EXCEPT ![r].pending = @ \ {q}]
    /\ last_pass' = NoPass
    /\ UNCHANGED <<manager, reqs, events, stores>>
    /\ UNCHANGED <<pager, call>>

\* ------------------------------------------------------------------ Next
\* The outstanding requests of one kind in crawl r.
Pending(r, kind) == {q \in runs[r].pending : q.kind = kind}

\* Every step of crawl thread r (for the fairness condition).
RunStep(r) ==
    \/ CrawlStart(r)
    \/ CrawlRaises(r)
    \/ EmitError(r)
    \/ ProcessReturns(r)
    \/ EmitCompleted(r)
    \/ \E resp \in SearchResponses : ParseAccountSearch(r, resp)
    \/ \E q \in Pending(r, "list"), resp \in ListingResponses : ParseArticleList(r, q, resp)
    \/ \E q \in Pending(r, "content"), outcome \in ContentOutcomes,
          fault \in MongoFaults, es_ok \in BOOLEAN :
            ParseArticleContent(r, q, outcome, fault, es_ok)
    \/ \E q \in runs[r].pending : DownloadFails(r, q)

Next ==
    \/ \E i \in 1..MaxRequests, account \in Accounts : StartCheck(i, account)
    \/ \E i \in 1..MaxRequests : StartLaunch(i)
    \/ \E r \in DOMAIN runs : CrawlStart(r)
    \/ \E r \in DOMAIN runs : CrawlRaises(r)
    \/ \E r \in DOMAIN runs : EmitError(r)
    \/ \E r \in DOMAIN runs : ProcessReturns(r)
    \/ \E r \in DOMAIN runs : EmitCompleted(r)
    \/ \E r \in DOMAIN runs, resp \in SearchResponses : ParseAccountSearch(r, resp)
    \/ \E r \in DOMAIN runs : \E q \in Pending(r, "list"), resp \in ListingResponses :
          ParseArticleList(r, q, resp)
    \/ \E r \in DOMAIN runs : \E q \in Pending(r, "content"), outcome \in ContentOutcomes,
                                  fault \in MongoFaults, es_ok \in BOOLEAN :
          ParseArticleContent(r, q, outcome, fault, es_ok)
    \/ \E r \in DOMAIN runs : \E q \in runs[r].pending : DownloadFails(r, q)

Spec == Init /\ [][Next]_vars

\* The crawl thread is scheduled, every request of the engine gets a response
\* or fails within the download timeout, and the engine stops when idle.
CrawlNext == \E r \in DOMAIN runs : RunStep(r)

LiveSpec == Spec /\ WF_vars(CrawlNext)

\* The same program with clients that wait for the answer to a start request
\* before they send the next one.
SeqStartCheck(i, account) ==
    /\ \A j \in 1..(i - 1) : reqs[j].pc = "returned"
    /\ StartCheck(i, account)

SeqNext ==
    \/ \E i \in 1..MaxRequests, account \in Accounts : SeqStartCheck(i, account)
    \/ \E i \in 1..MaxRequests : StartLaunch(i)
    \/ \E r \in DOMAIN runs : CrawlStart(r)
    \/ \E r \in DOMAIN runs : CrawlRaises(r)
    \/ \E r \in DOMAIN runs : EmitError(r)
    \/ \E r \in DOMAIN runs : ProcessReturns(r)
    \/ \E r \in DOMAIN runs : EmitCompleted(r)
    \/ \E r \in DOMAIN runs, resp \in SearchResponses : ParseAccountSearch(r, resp)
    \/ \E r \in DOMAIN runs : \E q \in Pending(r, "list"), resp \in ListingResponses :
          ParseArticleList(r, q, resp)
    \/ \E r \in DOMAIN runs : \E q \in Pending(r, "content"), outcome \in ContentOutcomes,
                                  fault \in MongoFaults, es_ok \in BOOLEAN :
          ParseArticleContent(r, q, outcome, fault, es_ok)
    \/ \E r \in DOMAIN runs : \E q \in runs[r].pending : DownloadFails(r, q)

SeqSpec == Init /\ [][SeqNext]_vars

SeqLiveSpec == SeqSpec /\ WF_vars(CrawlNext)

\* One crawl with its listing responses on record: ListResponse is
\* ParseArticleList that also notes, in call, the response it handled (kind,
\* number of entries, reported total, begin of the request) and the begins of
\* the listing requests it yielded.
ListResponse(r, q, resp) ==
    /\ runs[r].pc = "crawling"
    /\ q \in runs[r].pending
    /\ q.kind = "list"
    /\ runs' = [runs EXCEPT ![r].pending =
                   (@ \ {q}) \cup parse_article_list(resp, q.begin)]
    /\ last_pass' = NoPass
    /\ call' = [fn |-> "parse_article_list",
                args |-> [kind |-> resp.kind, entries |-> Len(resp.entries),
                          total |-> resp.total, begin |-> q.begin],
                result |-> {p.begin : p \in {y \in parse_article_list(resp, q.begin) :
                                                y.kind = "list"}}]
    /\ UNCHANGED <<manager, reqs, events, stores, pager>>

ListNext ==
    \/ \E account \in Accounts : SeqStartCheck(1, account)
    \/ StartLaunch(1)
    \/ \E r \in DOMAIN runs : CrawlStart(r)
    \/ \E r \in DOMAIN runs : ProcessReturns(r)
    \/ \E r \in DOMAIN runs : EmitCompleted(r)
    \/ \E r \in DOMAIN runs, resp \in SearchResponses : ParseAccountSearch(r, resp)
    \/ \E r \in DOMAIN runs : \E q \in Pending(r, "list"), resp \in ListingResponses :
          ListResponse(r, q, resp)
    \/ \E r \in DOMAIN runs : \E q \in Pending(r, "content"), outcome \in ContentOutcomes,
                                  fault \in MongoFaults, es_ok \in BOOLEAN :
          ParseArticleContent(r, q, outcome, fault, es_ok)
    \/ \E r \in DOMAIN runs : \E q \in runs[r].pending : DownloadFails(r, q)

ListSpec == Init /\ [][ListNext]_vars

\* The same program while the document store cannot be reached: open_spider
\* has logged the failed connection (pipelines.py 31-32) and the lookup at
\* line 42 raises in every pass (self.db is None, or the server selection
\* times out).
StoreDownNext ==
    \/ \E i \in 1..MaxRequests, account \in Accounts : SeqStartCheck(i, account)
    \/ \E i \in 1..MaxRequests : StartLaunch(i)
    \/ \E r \in DOMAIN runs : CrawlStart(r)
    \/ \E r \in DOMAIN runs : CrawlRaises(r)
    \/ \E r \in DOMAIN runs : EmitError(r)
    \/ \E r \in DOMAIN runs : ProcessReturns(r)
    \/ \E r \in DOMAIN runs : EmitCompleted(r)
    \/ \E r \in DOMAIN runs, resp \in SearchResponses : ParseAccountSearch(r, resp)
    \/ \E r \in DOMAIN runs : \E q \in Pending(r, "list"), resp \in ListingResponses :
          ParseArticleList(r, q, resp)
    \/ \E r \in DOMAIN runs : \E q \in Pending(r, "content"), outcome \in ContentOutcomes,
                                  es_ok \in BOOLEAN :
          ParseArticleContent(r, q, outcome, "find_one", es_ok)
    \/ \E r \in DOMAIN runs : \E q \in runs[r].pending : DownloadFails(r, q)

StoreDownSpec == Init /\ [][StoreDownNext]_vars

\* The listing requests of one crawl.  PageStart: parse_account_search yields
\* create_article_request(fake_id, begin=0).
PageStart ==
    /\ ~pager.started
    /\ pager' = [pager EXCEPT !.started = TRUE,
                              !.pending = {q.begin : q \in parse_account_search("found")}]
    /\ UNCHANGED <<manager, reqs, runs, events, stores, last_pass, call>>

\* PageFetch: the outstanding listing request is answered with n entries and
\* parse_article_list runs on the response.
PageFetch(b, n) ==
    /\ b \in pager.pending
    /\ pager' = [pager EXCEPT
                    !.pending = {q.begin : q \in {p \in parse_article_list(
                                     SourcePage(n, pager.total), b) : p.kind = "list"}},
                    !.log = Append(@, [begin |-> b, returned |-> n])]
    /\ UNCHANGED <<manager, reqs, runs, events, stores, last_pass, call>>

PagingInit ==
    /\ ManagerInit
    /\ pager \in [total : 0..MaxSourceTotal, pending : {{}}, log : {<< >>}, started : {FALSE}]
    /\ call = NoCall

PagingNext ==
    \/ PageStart
    \/ \E b \in pager.pending, n \in 0..count : PageFetch(b, n)

PagingSpec == PagingInit /\ [][PagingNext]_vars

\* The search-index stage taken by itself: any sequence of records handed to
\* ElasticsearchPipeline.process_item.
IndexItems ==
    [article_id : ArticleIds \cup {""}, title : {"T", ""}, url : {ValidUrl},
     content : {None, Text}, read_count : {IntValue(0)}]

IndexWrite(item, es_ok) ==
    LET ps == ElasticsearchPipeline_process_item(PassState(0, item), es_ok)
        found == {d \in es_index : d.article_id = item.article_id}
    IN  /\ es_index' = ps.es_index
        /\ last_pass' = [kind |-> "pass", run |-> 0, item |-> item,
                         existing |-> IF found = {} THEN NoItem
                                      ELSE CHOOSE d \in found : TRUE,
                         result |-> ps.result, reason |-> ps.reason, log |-> ps.log]
        /\ UNCHANGED <<manager, reqs, runs, events, articles, pager, call>>

IndexNext == \E item \in IndexItems, es_ok \in BOOLEAN : IndexWrite(item, es_ok)

IndexSpec == Init /\ [][IndexNext]_vars

\* ------------------------------------------------------------ media URLs
\* An attribute value or URL is the sequence of its pieces: "https:" (a
\* scheme with its colon), "/" and "a" (a run of other characters).  The
\* empty sequence is an attribute that is absent or empty.
MaxSrcLen == 4

UrlPieces == {"https:", "/", "a"}

Srcs == SeqsUpTo(UrlPieces, MaxSrcLen)

base_url == <<"https:", "/", "/", "mp.weixin.qq.com">>

\* str.startswith.
startswith(s, prefix) ==
    Len(s) >= Len(prefix) /\ SubSeq(s, 1, Len(prefix)) = prefix

\* urljoin(base, src) for a src that begins with a single "/" and a base
\* without a path: scheme and host of base, then src.
urljoin(base, src) == base \o src

\* Lines 252-255 and 269-272: what is stored for one source attribute.
ResolveSrc(src) ==
    IF startswith(src, <<"/", "/">>) THEN <<"https:">> \o src
    ELSE IF startswith(src, <<"/">>) THEN urljoin(base_url, src)
    ELSE src

\* extract_images: data-src or else src of every img tag, resolved; the
\* result is the set of the URLs (list(set(images))).
extract_images(page) ==
    LET src(img) == IF img.data_src # << >> THEN img.data_src ELSE img.src
    IN  {ResolveSrc(src(img)) : img \in {t \in page.imgs : src(t) # << >>}}

\* extract_videos: src of every video tag, resolved.
extract_videos(page) ==
    {ResolveSrc(video.src) : video \in {t \in page.videos : t.src # << >>}}

\* The pages: one img tag and one video tag.
MediaPages ==
    {[imgs |-> {[data_src |-> d, src |-> s]}, videos |-> {[src |-> s]}] :
        d \in SeqsUpTo(UrlPieces, 1), s \in Srcs}

ExtractImages ==
    /\ call.fn = "page"
    /\ call' = [fn |-> "extract_images", args |-> call.args,
                result |-> extract_images(call.args)]
    /\ UNCHANGED <<manager, reqs, runs, events, stores, last_pass, pager>>

ExtractVideos ==
    /\ call.fn = "page"
    /\ call' = [fn |-> "extract_videos", args |-> call.args,
                result |-> extract_videos(call.args)]
    /\ UNCHANGED <<manager, reqs, runs, events, stores, last_pass, pager>>

MediaInit ==
    /\ ManagerInit
    /\ pager = NoPager
    /\ call \in {[fn |-> "page", args |-> p, result |-> {}] : p \in MediaPages}

MediaNext == ExtractImages \/ ExtractVideos

MediaSpec == MediaInit /\ [][MediaNext]_vars

\* ------------------------------------------------------------ crawl time
\* The readings of datetime.now(): the clock does not run backwards between
\* the creation of an item and the handling of its detail page.
MaxClock == 6

\* WechatArticleItem.__init__ at time now.
WechatArticleItem(now) == [crawl_time |-> now]

\* Faulty variant: the except clause yields an item whose crawl_time is reset.
parse_article_content_time_Reset(item, now, outcome) ==
    IF outcome = "raises" THEN [item EXCEPT !.crawl_time = 0]
    ELSE [item EXCEPT !.crawl_time = now]

\* parse_article_content, as far as crawl_time goes: line 205 is reached on
\* the paths with and without content; when extraction raises, the item is
\* yielded as it was.
parse_article_content_time(item, now, outcome) ==
    IF outcome = "raises" THEN item
    ELSE [item EXCEPT !.crawl_time = now]

ParseContentAt ==
    /\ call.fn = "item"
    /\ call' = [fn |-> "parse_article_content", args |-> call.args,
                result |-> parse_article_content_time(
                               WechatArticleItem(call.args.created),
                               call.args.now, call.args.outcome)]
    /\ UNCHANGED <<manager, reqs, runs, events, stores, last_pass, pager>>

CrawlTimeInit ==
    /\ ManagerInit
    /\ pager = NoPager
    /\ call \in {[fn |-> "item",
                  args |-> [created |-> c, now |-> n, outcome |-> o],
                  result |-> WechatArticleItem(c)] :
                    c \in 0..MaxClock, n \in 0..MaxClock, o \in ContentOutcomes}
    /\ call.args.created <= call.args.now

CrawlTimeNext == ParseContentAt

CrawlTimeSpec == CrawlTimeInit /\ [][CrawlTimeNext]_vars

\* --------------------------------------------------- tags and categories
\* A text is the sequence of the code points of its characters.  The
\* keywords below are the Chinese keywords of the source, written as code
\* points, in the order of the source.
MaxTitleLen == 4

\* U+5065 U+5EB7 (health), U+751F U+6D3B (life), U+6280 U+672F (technology).
TitleChars == {20581, 24247, 29983, 27963, 25216, 26415}

Titles == SeqsUpTo(TitleChars, MaxTitleLen)

Descriptions == {<< >>, <<26415>>, <<27963>>}

\* str.lower on the characters that occur here.
lower(text) ==
    [i \in DOMAIN text |-> IF text[i] \in 65..90 THEN text[i] + 32 ELSE text[i]]

\* keyword in text.
Occurs(keyword, text) ==
    \E i \in 1..(Len(text) - Len(keyword) + 1) :
        SubSeq(text, i, i + Len(keyword) - 1) = keyword

common_tags ==
    <<<<25216, 26415>>, <<25945, 31243>>, <<20998, 20139>>, <<32463, 39564>>,
      <<24635, 32467>>, <<20998, 26512>>, <<30740, 31350>>, <<24320, 21457>>,
      <<35774, 35745>>, <<20135, 21697>>, <<36816, 33829>>, <<33829, 38144>>,
      <<21019, 19994>>, <<25237, 36164>>, <<32844, 22330>>, <<31649, 29702>>,
      <<29983, 27963>>, <<20581, 24247>>, <<25945, 32946>>, <<25991, 21270>>,
      <<33402, 26415>>, <<23089, 20048>>, <<20307, 32946>>, <<26053, 28216>>>>

categories ==
    <<[category |-> <<25216, 26415>>,
       keywords |-> <<<<25216, 26415>>, <<32534, 31243>>, <<24320, 21457>>,
                      <<20195, 30721>>, <<31639, 27861>>, <<26694, 26550>>,
                      <<24037, 20855>>>>],
      [category |-> <<29983, 27963>>,
       keywords |-> <<<<29983, 27963>>, <<26085, 24120>>, <<32463, 39564>>,
                      <<20998, 20139>>, <<25925, 20107>>, <<24863, 24735>>>>],
      [category |-> <<25945, 32946>>,
       keywords |-> <<<<25945, 32946>>, <<23398, 20064>>, <<25945, 31243>>,
                      <<22521, 35757>>, <<30693, 35782>>, <<25216, 33021>>>>],
      [category |-> <<21830, 19994>>,
       keywords |-> <<<<21830, 19994>>, <<21019, 19994>>, <<25237, 36164>>,
                      <<33829, 38144>>, <<31649, 29702>>, <<32844, 22330>>>>],
      [category |-> <<25991, 21270>>,
       keywords |-> <<<<25991, 21270>>, <<33402, 26415>>, <<21382, 21490>>,
                      <<25991, 23398>>, <<38899, 20048>>, <<30005, 24433>>>>],
      [category |-> <<20581, 24247>>,
       keywords |-> <<<<20581, 24247>>, <<21307, 30103>>, <<36816, 21160>>,
                      <<20859, 29983>>, <<24515, 29702>>>>],
      [category |-> <<31185, 25216>>,
       keywords |-> <<<<31185, 25216>>, <<31185, 23398>>, <<21019, 26032>>,
                      <<26410, 26469>>, <<20154, 24037, 26234, 33021>>,
                      <<20114, 32852, 32593>>>>]>>

\* The category returned when no keyword occurs (U+5176 U+4ED6, other).
OtherCategory == <<20854, 20182>>

\* The loop of extract_tags from tag number k on, with the tags found so far.
RECURSIVE TagLoop(_, _, _)
TagLoop(title_lower, k, tags) ==
    IF k > Len(common_tags) THEN tags
    ELSE TagLoop(title_lower, k + 1,
                 IF Occurs(common_tags[k], title_lower)
                 THEN Append(tags, common_tags[k]) ELSE tags)

\* Faulty variant: the loop stops at the first tag found.
extract_tags_FirstOnly(title) ==
    LET found == TagLoop(lower(title), 1, << >>)
    IN  IF found = << >> THEN << >> ELSE <<Head(found)>>

\* extract_tags.
extract_tags(title) == TagLoop(lower(title), 1, << >>)

\* The loops of categorize_article from category number c, keyword number k.
RECURSIVE CategoryLoop(_, _, _)
CategoryLoop(text, c, k) ==
    IF c > Len(categories) THEN OtherCategory
    ELSE IF k > Len(categories[c].keywords) THEN CategoryLoop(text, c + 1, 1)
    ELSE IF Occurs(categories[c].keywords[k], text) THEN categories[c].category
    ELSE CategoryLoop(text, c, k + 1)

\* Faulty variant: no return inside the loops, the last match is kept.
RECURSIVE CategoryLoop_LastWins(_, _, _, _)
CategoryLoop_LastWins(text, c, k, found) ==
    IF c > Len(categories) THEN found
    ELSE IF k > Len(categories[c].keywords)
    THEN CategoryLoop_LastWins(text, c + 1, 1, found)
    ELSE CategoryLoop_LastWins(text, c, k + 1,
             IF Occurs(categories[c].keywords[k], text)
             THEN categories[c].category ELSE found)

categorize_article_LastWins(title, description) ==
    CategoryLoop_LastWins(lower(title \o <<32>> \o description), 1, 1, OtherCategory)

\* categorize_article.
categorize_article(title, description) ==
    CategoryLoop(lower(title \o <<32>> \o description), 1, 1)

ExtractTags ==
    /\ call.fn = "entry"
    /\ call' = [fn |-> "extract_tags", args |-> call.args,
                result |-> extract_tags(call.args.title)]
    /\ UNCHANGED <<manager, reqs, runs, events, stores, last_pass, pager>>

CategorizeArticle ==
    /\ call.fn = "entry"
    /\ call' = [fn |-> "categorize_article", args |-> call.args,
                result |-> categorize_article(call.args.title, call.args.description)]
    /\ UNCHANGED <<manager, reqs, runs, events, stores, last_pass, pager>>

TextInit ==
    /\ ManagerInit
    /\ pager = NoPager
    /\ call \in {[fn |-> "entry", args |-> [title |-> t, description |-> d],
                  result |-> << >>] : t \in Titles, d \in Descriptions}

TextNext == ExtractTags \/ CategorizeArticle

TextSpec == TextInit /\ [][TextNext]_vars

\* --------------------------------------------------------- HTML to text
\* A piece of HTML is the sequence of its pieces: whole tags, runs of text
\* ("js" is the text of a script, "txt" any other text), a space and a
\* newline.
MaxHtmlLen == 4
MaxTextLen == 6

Tags == {"<script>", "</script>", "<style>", "</style>", "<!--", "-->",
         "<br>", "<p>", "</p>", "<div>", "</div>", "<b>"}

\* The tags that lines 227-231 turn into a newline.
BlockTags == {"<br>", "<p>", "</p>", "<div>", "</div>"}

\* What \s and str.strip take for whitespace.
Whitespace == {" ", "\n"}

HtmlTokens == {"<script>", "</script>", "<p>", "<b>", "js", "txt", " ", "\n"}

TextTokens == {"txt", " ", "\n"}

HtmlInputs == SeqsUpTo(HtmlTokens, MaxHtmlLen) \cup SeqsUpTo(TextTokens, MaxTextLen)

\* re.sub(open.*?close, '', s) with DOTALL: from left to right, every opening
\* piece that has a closing piece after it is removed together with
\* everything up to the first such closing piece.
RECURSIVE RemoveBlocks(_, _, _)
RemoveBlocks(s, open, close) ==
    IF s = << >> THEN << >>
    ELSE IF Head(s) = open /\ \E j \in 2..Len(s) : s[j] = close
    THEN LET j == CHOOSE j \in 2..Len(s) :
                      s[j] = close /\ \A m \in 2..(j - 1) : s[m] # close
         IN  RemoveBlocks(SubSeq(s, j + 1, Len(s)), open, close)
    ELSE <<Head(s)>> \o RemoveBlocks(Tail(s), open, close)

\* Lines 227-231.
BlockTagsToNewlines(s) ==
    [i \in DOMAIN s |-> IF s[i] \in BlockTags THEN "\n" ELSE s[i]]

\* Line 234: re.sub(r'<[^>]+>', '', s).
StripTags(s) == SelectSeq(s, LAMBDA t : t \notin Tags)

\* Line 237: re.sub(r'\n\s*\n', '\n\n', s).  A match starts at a newline and,
\* \s* being greedy, ends at the last newline of the whitespace run that
\* follows; the search goes on after the match.
RECURSIVE CollapseBlankLines(_)
CollapseBlankLines(s) ==
    IF s = << >> THEN << >>
    ELSE LET e == CHOOSE e \in 0..Len(s) :
                      /\ \A m \in 1..e : s[m] \in Whitespace
                      /\ e = Len(s) \/ s[e + 1] \notin Whitespace
             later == {j \in 2..e : s[j] = "\n"}
         IN  IF Head(s) = "\n" /\ later # {}
             THEN LET j == CHOOSE j \in later : \A m \in later : m <= j
                  IN  <<"\n", "\n">> \o CollapseBlankLines(SubSeq(s, j + 1, Len(s)))
             ELSE <<Head(s)>> \o CollapseBlankLines(Tail(s))

\* Faulty variant of line 237: re.sub(r'\n\n', '\n', s).
RECURSIVE HalveNewlines(_)
HalveNewlines(s) ==
    IF Len(s) < 2 THEN s
    ELSE IF s[1] = "\n" /\ s[2] = "\n"
    THEN <<"\n">> \o HalveNewlines(SubSeq(s, 3, Len(s)))
    ELSE <<Head(s)>> \o HalveNewlines(Tail(s))

\* Line 238: str.strip.
strip(s) ==
    LET solid == {i \in 1..Len(s) : s[i] \notin Whitespace}
    IN  IF solid = {} THEN << >>
        ELSE SubSeq(s, CHOOSE i \in solid : \A m \in solid : i <= m,
                       CHOOSE i \in solid : \A m \in solid : m <= i)

\* Faulty variant: the tags are stripped without the script, style and
\* comment blocks having been removed.
clean_html_content_TagsFirst(html_content) ==
    strip(CollapseBlankLines(StripTags(BlockTagsToNewlines(html_content))))

\* Faulty variant: blank lines are halved instead of collapsed.
clean_html_content_HalvesNewlines(html_content) ==
    strip(HalveNewlines(StripTags(BlockTagsToNewlines(
        RemoveBlocks(RemoveBlocks(RemoveBlocks(html_content,
            "<script>", "</script>"), "<style>", "</style>"), "<!--", "-->")))))

\* clean_html_content.
clean_html_content(html_content) ==
    strip(CollapseBlankLines(StripTags(BlockTagsToNewlines(
        RemoveBlocks(RemoveBlocks(RemoveBlocks(html_content,
            "<script>", "</script>"), "<style>", "</style>"), "<!--", "-->")))))

CleanHtmlContent ==
    /\ call.fn = "html"
    /\ call' = [fn |-> "clean_html_content", args |-> call.args,
                result |-> clean_html_content(call.args)]
    /\ UNCHANGED <<manager, reqs, runs, events, stores, last_pass, pager>>

HtmlInit ==
    /\ ManagerInit
    /\ pager = NoPager
    /\ call \in {[fn |-> "html", args |-> h, result |-> << >>] : h \in HtmlInputs}

HtmlNext == CleanHtmlContent

HtmlSpec == HtmlInit /\ [][HtmlNext]_vars

\* ================================================================ claims
RunPc(r) == IF r \in DOMAIN runs THEN runs[r].pc ELSE "none"

\* A crawl pipeline is active from the start of its thread until
\* process.start() has returned or raised.
Active(r) == RunPc(r) \in {"launch", "crawling"}

TerminalEvents(r) ==
    {k \in 1..Len(events) : events[k].run = r /\ events[k].status \in {"completed", "error"}}

Logged(msg) == \E k \in 1..Len(last_pass.log) : last_pass.log[k].msg = msg

IsPass == last_pass.kind = "pass"

\* The pass met a stored record with the item's article_id.
IsDuplicatePass == IsPass /\ Logged("Article already exists")

C2_StartWhileRunningFails ==
    [][\A i \in 1..MaxRequests :
          (reqs[i].pc = "new" /\ reqs'[i].pc # "new" /\ is_running)
          => /\ reqs'[i].pc = "returned"
             /\ reqs'[i].success = FALSE
             /\ UNCHANGED <<manager, runs, events, stores>>]_vars

C2_Witness ==
    \E i \in 1..MaxRequests :
        /\ reqs[i].pc = "returned"
        /\ ~reqs[i].success
        /\ is_running
        /\ \E r \in DOMAIN runs : Active(r)

\* C3: every started run leaves the running state and emits exactly one
\* terminal event, completed or error, whether the crawl finishes or raises:
\* a run has at most one terminal event and exactly one once it is done, the
\* step that ends its crawl clears is_running, and again and again every
\* started run is done.
C3_RunTerminates ==
    /\ [](\A r \in DOMAIN runs :
            /\ Cardinality(TerminalEvents(r)) <= 1
            /\ runs[r].pc = "done" => Cardinality(TerminalEvents(r)) = 1)
    /\ [][\A r \in DOMAIN runs : (Active(r) /\ ~Active(r)') => ~is_running']_vars
    /\ []<>(\A r \in DOMAIN runs : runs[r].pc = "done")

C3_Witness ==
    \E r1, r2 \in DOMAIN runs :
        /\ RunPc(r1) = "done" /\ RunPc(r2) = "done"
        /\ \E k \in TerminalEvents(r1) : events[k].status = "completed"
        /\ \E k \in TerminalEvents(r2) : events[k].status = "error"
        /\ ~is_running

\* C4: no record with an empty title, content or url is in the document
\* store or in the search index.
C4_NoInvalidRecordStored ==
    \A d \in BagToSet(articles) \cup es_index :
        ~Falsy(d.title) /\ ~Falsy(d.content) /\ ~Falsy(d.url)

\* C5: the document store holds at most one record per article_id.
C5_OneRecordPerArticleId ==
    \A id \in ArticleIds :
        LET ds == Existing(articles, id)
        IN  Cardinality(ds) <= 1 /\ \A d \in ds : CopiesIn(d, articles) = 1

C5_Witness ==
    /\ IsDuplicatePass
    /\ \E r \in DOMAIN runs : r # last_pass.run /\ RunPc(r) = "done"
    /\ Cardinality(Existing(articles, last_pass.item.article_id)) = 1

\* C6: a record whose article_id is already stored is dropped, both stores
\* stay exactly as they were (nothing is updated, nothing is indexed).
C6_FirstWriteWins ==
    [][(last_pass'.kind = "pass" /\ last_pass'.existing # NoItem)
          => /\ last_pass'.result = "drop"
             /\ articles' = articles
             /\ es_index' = es_index]_vars

C6_Witness ==
    /\ IsDuplicatePass
    /\ last_pass.item # last_pass.existing
    /\ last_pass.existing \in BagToSet(articles)
    /\ last_pass.item \notin BagToSet(articles)

\* C7: a duplicate is dropped with the DuplicateItem outcome and is not
\* reported as an error of the document store.
C7_DuplicateIsNotStoreError ==
    IsDuplicatePass
    => /\ last_pass.reason = <<"Duplicate item found">>
       /\ ~Logged("Error saving to MongoDB")

\* C8: a record whose search-index write fails is returned by the stage,
\* stays in the document store and is counted in crawled_articles.
C8_IndexFailureStillCounted ==
    (IsPass /\ Logged("Error indexing in Elasticsearch"))
    => /\ last_pass.result = "item"
       /\ last_pass.item \in BagToSet(articles)
       /\ crawled_articles >= 1

\* C9: whenever the content fetch of a listing entry ends, by a response or
\* by a failure, the record built from the listing goes to the pipeline.
C9_PartialRecordForwarded ==
    [][\A r \in DOMAIN runs :
          \A q \in runs[r].pending \ runs'[r].pending :
              q.kind = "content"
              => /\ last_pass'.kind = "pass"
                 /\ last_pass'.run = r
                 /\ last_pass'.item.article_id = q.item.article_id]_vars

\* C10: a per-record failure never aborts the run.  (a) A record that is
\* dropped, or whose content fetch fails, takes only its own request out of
\* the crawl: every other request of the run stays scheduled, the run goes on
\* crawling and no event is emitted.  (b) When a listing page holds an entry
\* whose detail-page request cannot be made, every other entry of the page
\* still gets its content request and the next listing page is still
\* requested when the listing reports more articles.
C10_RecordFailureContained ==
    [][\A r \in DOMAIN runs :
          /\ \A q \in runs[r].pending \ runs'[r].pending :
                (q.kind = "content" /\ (last_pass'.kind = "nopass" \/ last_pass'.result = "drop"))
                => /\ runs'[r].pending = runs[r].pending \ {q}
                   /\ runs'[r].pc = "crawling"
                   /\ events' = events
                   /\ is_running' = is_running
          /\ \A q \in runs[r].pending \ runs'[r].pending :
                \A resp \in ListingResponses :
                    (/\ q.kind = "list"
                     /\ resp.kind = "ok"
                     /\ FirstRaise(resp.entries) # 0
                     /\ ParseArticleList(r, q, resp))
                    => /\ \A k \in 1..Len(resp.entries) :
                             LET item == parse_article_data(resp.entries[k])
                             IN  (item # NoItem /\ ~RequestRaises(item.url))
                                 => ContentRequest(item) \in runs'[r].pending
                       /\ q.begin + Len(resp.entries) < resp.total
                          => create_article_request(q.begin + Len(resp.entries))
                                \in runs'[r].pending]_vars
\* C11: when the account search finds no matching account the run fails
\* fast: no listing request is issued and the run does not take the exit
\* that emits the completed event (it ends in error).
C11_AccountNotFoundFailsRun ==
    \A r \in DOMAIN runs :
        runs[r].not_found
        => /\ Pending(r, "list") = {}
           /\ runs[r].pc # "emit_completed"

\* C12: while the document-store connection cannot be established a run is
\* aborted: it never crawls on to the exit that emits the completed event,
\* and every terminal event has status error.
C12_StoreDownFailsRun ==
    /\ \A r \in DOMAIN runs : runs[r].pc # "emit_completed"
    /\ \A k \in 1..Len(events) : events[k].status = "error"

WellBehaved ==
    \A k \in 1..Len(pager.log) :
        LET left == pager.total - pager.log[k].begin
        IN  pager.log[k].returned = IF left < count THEN left ELSE count

PagesOf(total) == (total + count - 1) \div count

C15_ProcessedRecordCounted ==
    [][(last_pass'.kind = "pass" /\ last_pass'.result = "item")
          => crawled_articles' = crawled_articles + 1]_vars

\* C16: every record that is fully processed is announced by one event with
\* status crawling that carries the new value of crawled_articles, so that the
\* observer sees crawled = 1, 2, ..., n before the completed event.
C16_CrawlingEvents ==
    [][(last_pass'.kind = "pass" /\ last_pass'.result = "item")
          => /\ Len(events') = Len(events) + 1
             /\ events'[Len(events')].status = "crawling"
             /\ events'[Len(events')].run = last_pass'.run
             /\ events'[Len(events')].crawled = crawled_articles']_vars

\* C17: in every state and in every emitted event progress is between 0 and
\* 100 and equals crawled / max(total, 1) * 100, and crawled does not exceed
\* a total that is known.
C17_ProgressFormula ==
    /\ progress >= 0 /\ progress <= 1000
    /\ progress = Percent(crawled_articles, total_articles)
    /\ total_articles > 0 => crawled_articles <= total_articles
    /\ \A k \in 1..Len(events) :
          /\ events[k].progress >= 0 /\ events[k].progress <= 1000
          /\ events[k].progress = Percent(events[k].crawled, events[k].total)

\* C18: when the engine has nothing left to do the run emits one event with
\* status completed and progress 100, and no event with status crawling of a
\* run follows the terminal event of that run.
C18_CompletedEvent ==
    /\ [](\A k \in 1..Len(events) :
            /\ events[k].status = "completed" => events[k].progress = 1000
            /\ events[k].status \in {"completed", "error"}
               => \A j \in (k + 1)..Len(events) :
                     ~(events[j].run = events[k].run /\ events[j].status = "crawling"))
    /\ [][\A r \in DOMAIN runs :
            (runs[r].pc = "crawling" /\ runs'[r].pc # "crawling")
            => /\ runs[r].pending = {}
               /\ runs'[r].pc = "emit_completed"]_vars
    /\ [][\A r \in DOMAIN runs :
            (runs[r].pc = "emit_completed" /\ runs'[r].pc # "emit_completed")
            => /\ Len(events') = Len(events) + 1
               /\ events'[Len(events')].run = r
               /\ events'[Len(events')].status = "completed"
               /\ events'[Len(events')].progress = 1000]_vars

C18_Witness ==
    \E k \in 1..Len(events) :
        /\ events[k].status = "completed"
        /\ events[k].progress = 1000
        /\ RunPc(events[k].run) = "done"
        /\ articles # EmptyBag

\* C19: the step of a successful start leaves crawled_articles = 0,
\* progress = 0, is_running = TRUE and current_task = the account asked for,
\* and returns success while the crawl thread has only been launched.
C19_StartResets ==
    [][\A i \in 1..MaxRequests :
          (reqs[i].pc = "checked" /\ reqs'[i].pc # "checked")
          => /\ reqs'[i].pc = "returned" /\ reqs'[i].success
             /\ crawled_articles' = 0
             /\ progress' = 0
             /\ is_running'
             /\ current_task' = reqs[i].account
             /\ Len(runs') = Len(runs) + 1
             /\ runs'[Len(runs')].pc = "launch"
             /\ runs'[Len(runs')].account = reqs[i].account]_vars

C19_Witness ==
    /\ Len(runs) = 2
    /\ RunPc(1) = "done"
    /\ RunPc(2) = "launch"
    /\ \E i \in 1..MaxRequests : reqs[i].pc = "returned" /\ reqs[i].success
    /\ is_running
    /\ current_task \in Accounts
    /\ crawled_articles = 0
    /\ articles # EmptyBag

\* A count that is a non-negative integer.
NonNegativeInteger(v) == v.type = "int" /\ v.num >= 0

\* C20: every record in the document store or in the search index has counts
\* that are non-negative integers.
C20_CountsAreIntegers ==
    \A d \in BagToSet(articles) \cup es_index : NonNegativeInteger(d.read_count)

\* A pass in which the document store itself failed (lookup or insert), as
\* opposed to a duplicate.
IsStoreFailurePass ==
    IsPass /\ Logged("Error saving to MongoDB") /\ ~Logged("Article already exists")

\* C21: a record whose document-store write fails is dropped and is not
\* written to the search index (both stores stay as they were), and only its
\* own request leaves the crawl: the run goes on crawling with every other
\* request still scheduled, and no event is emitted.
C21_StoreFailureDropsRecord ==
    [][\A r \in DOMAIN runs :
          \A q \in runs[r].pending \ runs'[r].pending :
              (q.kind = "content" /\ IsStoreFailurePass')
              => /\ last_pass'.result = "drop"
                 /\ articles' = articles
                 /\ es_index' = es_index
                 /\ runs'[r].pending = runs[r].pending \ {q}
                 /\ runs'[r].pc = "crawling"
                 /\ events' = events
                 /\ is_running' = is_running]_vars

C21_Witness ==
    /\ IsStoreFailurePass
    /\ last_pass.result = "drop"
    /\ last_pass.item \notin BagToSet(articles) \cup es_index
    /\ RunPc(last_pass.run) = "crawling"
    /\ Pending(last_pass.run, "content") # {}

C30_SequentialListing ==
    /\ [](\A r \in DOMAIN runs : Cardinality(Pending(r, "list")) <= 1)
    /\ [][\A r \in DOMAIN runs :
             \A q \in runs'[r].pending \ runs[r].pending :
                 q.kind = "list"
                 => \E p \in runs[r].pending \ runs'[r].pending :
                       \/ p.kind = "search" /\ q.begin = 0
                       \/ p.kind = "list" /\ q.begin > p.begin]_vars

C30_Witness ==
    \E r \in DOMAIN runs :
        /\ runs[r].pc = "crawling"
        /\ \E q \in Pending(r, "list") : q.begin > 0
        /\ Pending(r, "content") # {}

\* C29: a running crawl can be cancelled from the control surface: whenever
\* a run is crawling with requests still outstanding, some operation of the
\* program takes the coordinator to idle (is_running false) from that state.
C29_CancellationPossible ==
    \A r \in DOMAIN runs :
        (is_running /\ runs[r].pc = "crawling" /\ runs[r].pending # {})
        => ENABLED (SeqNext /\ ~is_running')

\* A URL with a scheme and a host.
IsAbsolute(u) ==
    /\ Len(u) >= 4
    /\ u[1] = "https:"
    /\ u[2] = "/"
    /\ u[3] = "/"
    /\ u[4] # "/"

\* C23: every URL that extract_images and extract_videos return is absolute,
\* whatever form the source attribute has.
C23_MediaUrlsAbsolute ==
    call.fn \in {"extract_images", "extract_videos"}
    => \A u \in call.result : IsAbsolute(u)

\* C24: on every path through parse_article_content the crawl_time of the
\* item that is yielded is not earlier than the time at which the item was
\* created from its listing entry.
C24_CrawlTimeNotEarlier ==
    call.fn = "parse_article_content"
    => call.result.crawl_time >= call.args.created

C24_Witness ==
    /\ call.fn = "parse_article_content"
    /\ call.args.outcome = "nocontent"
    /\ call.args.created > 0
    /\ call.args.now > call.args.created
    /\ call.result.crawl_time = call.args.now

\* The categories of which some keyword occurs in title + " " + description.
Matching(title, description) ==
    {c \in 1..Len(categories) :
        \E k \in 1..Len(categories[c].keywords) :
            Occurs(categories[c].keywords[k], title \o <<32>> \o description)}

\* C25: categorize_article returns the first category, in table order, of
\* which a keyword occurs in title + " " + description (whatever later
\* categories match as well), and the category "other" when none does.
C25_FirstCategoryWins ==
    call.fn = "categorize_article"
    => LET hits == Matching(call.args.title, call.args.description)
       IN  IF hits = {} THEN call.result = OtherCategory
           ELSE \E c \in hits :
                   /\ \A d \in hits : c <= d
                   /\ call.result = categories[c].category

\* The title holds "life" before "technology"; technology is the first
\* category of the table, life the second.
C25_Witness ==
    /\ call.fn = "categorize_article"
    /\ call.args.title = <<29983, 27963, 25216, 26415>>
    /\ Matching(call.args.title, call.args.description) = {1, 2}
    /\ call.result = <<25216, 26415>>

\* C26: extract_tags returns exactly the keywords of common_tags that occur
\* in the title: keyword k is in the result if and only if k occurs in the
\* title.
C26_AllTagsReturned ==
    call.fn = "extract_tags"
    => /\ \A i \in 1..Len(common_tags) :
             (\E j \in 1..Len(call.result) : call.result[j] = common_tags[i])
             <=> Occurs(common_tags[i], call.args.title)
       /\ \A j \in 1..Len(call.result) :
             \E i \in 1..Len(common_tags) : call.result[j] = common_tags[i]

\* The title of the example: "health" followed by "life".
C26_Witness ==
    /\ call.fn = "extract_tags"
    /\ call.args.title = <<20581, 24247, 29983, 27963>>
    /\ call.result = <<<<29983, 27963>>, <<20581, 24247>>>>

\* The positions of html that lie inside a script block: after an opening
\* script tag with no closing script tag in between, and before a closing one.
InScriptBlock(html, k) ==
    /\ \E i \in 1..(k - 1) :
          html[i] = "<script>" /\ \A m \in (i + 1)..k : html[m] # "</script>"
    /\ \E j \in (k + 1)..Len(html) : html[j] = "</script>"

\* C27: when the script text of the input lies inside script blocks only,
\* none of it occurs in the normalized output.
C27_ScriptTextRemoved ==
    (/\ call.fn = "clean_html_content"
     /\ \A k \in 1..Len(call.args) : call.args[k] = "js" => InScriptBlock(call.args, k))
    => \A k \in 1..Len(call.result) : call.result[k] # "js"

\* A script block followed by visible text.
C27_Witness ==
    /\ call.fn = "clean_html_content"
    /\ call.args = <<"<script>", "js", "</script>", "txt">>
    /\ call.result = <<"txt">>

\* C28: normalizing the normalized form of a text without tags gives the
\* same text again.
C28_Idempotent ==
    (/\ call.fn = "clean_html_content"
     /\ \A k \in 1..Len(call.args) : call.args[k] \notin Tags)
    => clean_html_content(call.result) = call.result

\* A text with a whitespace-only line followed by a blank line.
C28_Witness ==
    /\ call.fn = "clean_html_content"
    /\ call.args = <<"txt", "\n", " ", "\n", "\n", "txt">>
    /\ call.result = <<"txt", "\n", "\n", "txt">>
    /\ clean_html_content(call.result) = call.result

\* The article_ids of a set of documents.
Ids(docs) == {d.article_id : d \in docs}

\* C31: the article_ids in the search index are among those in the document
\* store, and a step that writes a record to the index is a pipeline pass
\* that has inserted that record into the document store.
C31_IndexedImpliesStored ==
    /\ [](Ids(es_index) \subseteq Ids(BagToSet(articles)))
    /\ [][es_index' # es_index
            => /\ last_pass'.kind = "pass"
               /\ es_index' \ es_index = {last_pass'.item}
               /\ articles' = articles (+) SetToBag({last_pass'.item})
               /\ Logged("Article saved to MongoDB")']_vars

C31_Witness ==
    /\ IsPass
    /\ Logged("Article indexed in Elasticsearch")
    /\ last_pass.item \in es_index
    /\ last_pass.item \in BagToSet(articles)
    /\ Cardinality(es_index) = 2

\* C32: a pipeline pass for an article_id that is already in the document
\* store makes no search-index write (none is attempted), in whatever run it
\* happens; so an article_id that is stored but not indexed stays out of the
\* index.
C32_StoredIsNeverIndexedLater ==
    [][/\ (last_pass'.kind = "pass"
           /\ Existing(articles, last_pass'.item.article_id) # {})
          => /\ ~Logged("Article indexed in Elasticsearch")'
             /\ ~Logged("Error indexing in Elasticsearch")'
             /\ es_index' = es_index
       /\ \A id \in Ids(BagToSet(articles)) \ Ids(es_index) :
             id \notin Ids(es_index')]_vars

\* The first pass for a1 stored it but failed to index it; a later run met
\* a1 again.
C32_Witness ==
    /\ IsDuplicatePass
    /\ last_pass.run = 2
    /\ last_pass.item.article_id = "a1"
    /\ "a1" \in Ids(BagToSet(articles))
    /\ "a1" \notin Ids(es_index)

\* C33: once the terminal event of a run has been emitted, a status query
\* answers is_running = false, unless a run started later is active.
C33_TerminalEventAfterFlagCleared ==
    \A r \in DOMAIN runs :
        (TerminalEvents(r) # {} /\ get_status.is_running)
        => \E later \in DOMAIN runs : later > r /\ Active(later)

C33_Witness ==
    /\ TerminalEvents(1) # {}
    /\ events[Len(events)].run = 1
    /\ events[Len(events)].status = "completed"
    /\ ~get_status.is_running
    /\ articles # EmptyBag

\* A listing response that could not be parsed, reported failure or carried
\* no entries.
BadListing(args) == args.kind # "ok" \/ args.entries = 0

\* C34: after a listing response that cannot be parsed, reports failure or
\* carries no entries, the run has no listing request outstanding (none is
\* issued any more), whatever total the source reported before; handling
\* that response leaves the content requests of the run outstanding and the
\* run crawling.
C34_BadListingEndsPaging ==
    /\ []((call.fn = "parse_article_list" /\ BadListing(call.args))
          => /\ call.result = {}
             /\ \A r \in DOMAIN runs : Pending(r, "list") = {})
    /\ [][(/\ call'.fn = "parse_article_list"
            /\ BadListing(call'.args)
            /\ \E r \in DOMAIN runs : Pending(r, "list")' # Pending(r, "list"))
            => \A r \in DOMAIN runs :
                  /\ Pending(r, "content")' = Pending(r, "content")
                  /\ runs'[r].pc = "crawling"]_vars

\* The second page (begin 1) reported failure; the article of the first
\* page was then stored.
C34_Witness ==
    /\ call.fn = "parse_article_list"
    /\ call.args.kind = "failure"
    /\ call.args.begin = 1
    /\ IsPass
    /\ last_pass.item \in BagToSet(articles)

\* C35: a listing entry that cannot be turned into a content request (its
\* metadata does not parse, or its link is empty) affects only itself: when
\* parse_article_list handles a page, the content request of every entry
\* that can be turned into one is issued, and so is the next-page request
\* when begin + len(entries) is below the total.
C35_BadEntryAffectsOnlyItself ==
    [][\A r \in DOMAIN runs :
          \A q \in Pending(r, "list"), resp \in ListingResponses :
              (ParseArticleList(r, q, resp) /\ resp.kind = "ok" /\ resp.entries # << >>)
              => /\ \A k \in 1..Len(resp.entries) :
                       (/\ parse_article_data(resp.entries[k]) # NoItem
                        /\ ~RequestRaises(resp.entries[k].link))
                       => ContentRequest(parse_article_data(resp.entries[k]))
                              \in runs'[r].pending
                 /\ q.begin + Len(resp.entries) < resp.total
                    => create_article_request(q.begin + Len(resp.entries))
                           \in runs'[r].pending]_vars

=============================================================================
